---- MODULE Spec2Model ----
(***************************************************************************)
(* Plugin catalog synchronisation (package plugin, PluginManager).         *)
(*                                                                         *)
(* Populate reads a zip of plugin manifests and reconciles it against the  *)
(* plugin store; the lookup function resolves one stored plugin.  A pass   *)
(* is modelled as a process that takes one step per call that blocks: the  *)
(* call of Populate, os.Stat, os.CreateTemp, http.Get, os.Create, io.Copy, *)
(* zip.OpenReader, ListAll, one ProcessEntry step per archive entry (at    *)
(* most one store write each) and the return with its deferred clean-up.   *)
(* Under Spec a pass begins once the one before has returned; under        *)
(* OverlapSpec passes of different processes interleave at these steps;    *)
(* under RaceSpec two passes interleave and the archive behind the path is *)
(* replaced between their calls, so that they read different archives.     *)
(* Calls fail for outside reasons under Spec, LookupSpec and               *)
(* OverlapFaultSpec.                                                       *)
(***************************************************************************)
EXTENDS Integers, Sequences, FiniteSets, TLC

VARIABLES
    path,       \* m.config.CI.PluginsZipPath
    zip,        \* the entries of the archive behind path: <<[name, body], ...>>
    catalog,    \* the plugin store's rows
    pass,       \* per process: the Populate invocation's local state
    lookup,     \* the last call of the lookup function and what it returned
    faults,     \* how many calls have failed for a reason outside the program
    written     \* per identifier: the Create and Update calls issued for it, in
                \* the order of issue, each with the pass that issued it

vars == <<path, zip, catalog, pass, lookup, faults, written>>

----------------------------------------------------------------------------
(* Bounds *)

\* Largest number of entries in the archive.
MaxEntries == 2

\* Number of Populate invocations in one behaviour.
NumPasses == 2

\* Largest number of calls that fail for a reason outside the program (file
\* system, network, store outage) in one behaviour.
MaxFaults == 1

Procs == 1..NumPasses

----------------------------------------------------------------------------
(* Strings and paths *)

Char(s, i) == SubSeq(s, i, i)

\* path/filepath.Match restricted to patterns of literals and '*': a star
\* matches any run of non-separator characters ("**" is two stars in a row
\* and so the same as one).
RECURSIVE GlobAt(_, _, _, _)
GlobAt(pat, i, name, j) ==
    IF i > Len(pat) THEN j > Len(name)
    ELSE IF Char(pat, i) = "*"
         THEN \/ GlobAt(pat, i + 1, name, j)
              \/ /\ j <= Len(name)
                 /\ Char(name, j) # "/"
                 /\ GlobAt(pat, i, name, j + 1)
         ELSE /\ j <= Len(name)
              /\ Char(name, j) = Char(pat, i)
              /\ GlobAt(pat, i + 1, name, j + 1)

Match(pat, name) == GlobAt(pat, 1, name, 1)

PluginPattern == "**/plugins/*/*.yaml"

\* Position of the last '/' of name at or before j, 0 if there is none.
RECURSIVE LastSlash(_, _)
LastSlash(name, j) ==
    IF j = 0 THEN 0
    ELSE IF Char(name, j) = "/" THEN j ELSE LastSlash(name, j - 1)

\* Position of the first '/' of name at or after j, 0 if there is none.
RECURSIVE FirstSlash(_, _)
FirstSlash(name, j) ==
    IF j > Len(name) THEN 0
    ELSE IF Char(name, j) = "/" THEN j ELSE FirstSlash(name, j + 1)

\* The elements of name between its separators; an element may be empty.
\* SplitAt: k is the position of the first separator of name, 0 for none.
RECURSIVE Split(_)
RECURSIVE SplitAt(_, _)
SplitAt(name, k) ==
    IF k = 0 THEN <<name>>
    ELSE <<SubSeq(name, 1, k - 1)>> \o Split(SubSeq(name, k + 1, Len(name)))

Split(name) == SplitAt(name, FirstSlash(name, 1))

\* The elements that are left of es once "" and "." are dropped and every
\* ".." has taken away the element before it; a ".." with nothing before it
\* to take away is dropped on a rooted path and kept on a relative one.
RECURSIVE Kept(_, _, _)
Kept(es, rooted, out) ==
    IF es = << >> THEN out
    ELSE LET e    == Head(es)
             rest == Tail(es)
         IN  IF e = "" \/ e = "." THEN Kept(rest, rooted, out)
             ELSE IF e = ".."
             THEN IF out # << >> /\ out[Len(out)] # ".."
                  THEN Kept(rest, rooted, SubSeq(out, 1, Len(out) - 1))
                  ELSE IF rooted THEN Kept(rest, rooted, out)
                  ELSE Kept(rest, rooted, Append(out, e))
             ELSE Kept(rest, rooted, Append(out, e))

\* The elements es joined by separators.
RECURSIVE Joined(_)
Joined(es) ==
    IF es = << >> THEN ""
    ELSE IF Len(es) = 1 THEN es[1]
    ELSE es[1] \o "/" \o Joined(Tail(es))

\* name begins with a separator.
Rooted(name) == Len(name) > 0 /\ Char(name, 1) = "/"

\* The cleaned path of the joined elements out: "/" in front of a rooted
\* one, "." for an empty relative one.
Cleaned(rooted, out) ==
    IF rooted THEN "/" \o out
    ELSE IF out = "" THEN "." ELSE out

\* filepath.Clean (path.Clean): the shortest path name equivalent to name.
Clean(name) ==
    Cleaned(Rooted(name), Joined(Kept(Split(name), Rooted(name), << >>)))

\* filepath.Dir: all but the last element of name, cleaned.
Dir(name) == Clean(SubSeq(name, 1, LastSlash(name, Len(name))))

\* filepath.Join(dir, elem): the non-empty elements joined by a separator,
\* cleaned; the empty string if both are empty.
Join(dir, elem) ==
    IF dir = "" /\ elem = "" THEN ""
    ELSE IF dir = "" THEN Clean(elem)
    ELSE IF elem = "" THEN Clean(dir)
    ELSE Clean(dir \o "/" \o elem)

----------------------------------------------------------------------------
(* Manifests: the texts an entry may hold and what parse.ParseBytes makes  *)
(* of them                                                                 *)

StepOne  == "{kind: plugin, type: step, name: docker, spec: {description: one}}"
StepTwo  == "{kind: plugin, type: step, name: docker, spec: {description: two}}"
StageOne == "{kind: plugin, type: stage, name: slack, spec: {description: one}}"
Pipeline == "{kind: pipeline, type: ci, name: docker, spec: {}}"
Broken   == "{kind: plugin"
Svg      == "<svg/>"

NoConfig == [Kind |-> "", Type |-> "", Name |-> "", Variant |-> "", Description |-> ""]

\* parse.ParseBytes / parse.ParseString: the config, or an error.  Variant
\* is the dynamic type of config.Spec.
ParseBytes(b) ==
    CASE b = StepOne ->
           [err |-> FALSE,
            config |-> [Kind |-> "plugin", Type |-> "step", Name |-> "docker",
                        Variant |-> "PluginStep", Description |-> "one"]]
      [] b = StepTwo ->
           [err |-> FALSE,
            config |-> [Kind |-> "plugin", Type |-> "step", Name |-> "docker",
                        Variant |-> "PluginStep", Description |-> "two"]]
      [] b = StageOne ->
           [err |-> FALSE,
            config |-> [Kind |-> "plugin", Type |-> "stage", Name |-> "slack",
                        Variant |-> "PluginStage", Description |-> "one"]]
      [] b = Pipeline ->
           [err |-> FALSE,
            config |-> [Kind |-> "pipeline", Type |-> "ci", Name |-> "docker",
                        Variant |-> "Pipeline", Description |-> ""]]
      [] OTHER -> [err |-> TRUE, config |-> NoConfig]

ParseString(s) == ParseBytes(s)

----------------------------------------------------------------------------
(* types.Plugin and the plugin store *)

Plugin(uid, typ, desc, spec, logo) ==
    [UID |-> uid, Type |-> typ, Description |-> desc, Spec |-> spec, Logo |-> logo]

\* (*types.Plugin).Matches: equal content identity.
Matches(p, v) ==
    /\ p.Description = v.Description
    /\ p.Spec = v.Spec
    /\ p.Type = v.Type
    /\ p.Logo = v.Logo

HasUID(rows, uid) == \E q \in rows : q.UID = uid

\* store.PluginStore.Create: fails if the identifier exists (or the store
\* errs), else adds the row.
StoreCreate(rows, d, storeErr) ==
    IF storeErr \/ HasUID(rows, d.UID)
    THEN [ok |-> FALSE, rows |-> rows]
    ELSE [ok |-> TRUE, rows |-> rows \cup {d}]

\* store.PluginStore.Update: fails if the identifier is absent (or the
\* store errs), else replaces the row of that identifier.
StoreUpdate(rows, d, storeErr) ==
    IF storeErr \/ ~HasUID(rows, d.UID)
    THEN [ok |-> FALSE, rows |-> rows]
    ELSE [ok |-> TRUE, rows |-> {q \in rows : q.UID # d.UID} \cup {d}]

\* store.PluginStore.ListAll
StoreListAll(rows, storeErr) ==
    IF storeErr THEN [ok |-> FALSE, rows |-> {}] ELSE [ok |-> TRUE, rows |-> rows]

\* store.PluginStore.Find(name, version): the stored row of that name.
StoreFind(rows, name, version, storeErr) ==
    IF storeErr \/ ~HasUID(rows, name)
    THEN [ok |-> FALSE, row |-> Plugin("", "", "", "", "")]
    ELSE [ok |-> TRUE, row |-> CHOOSE q \in rows : q.UID = name]

NoPlugin == Plugin("", "", "", "", "")

----------------------------------------------------------------------------
(* Inputs *)

LocalZip  == "/data/plugins.zip"
RemoteZip == "https://plugins.example/plugins.zip"

\* f.Name() of the file os.CreateTemp makes.
TempName  == "/tmp/plugins.zip0001"

\* os.Stat(path) succeeds: the configured path names a local file.
Stat(p) == p = LocalZip

Entry(name, body) == [name |-> name, body |-> body]

\* The entries an archive is made of.
EntryPool ==
    {Entry("repo/plugins/docker/plugin.yaml", b) :
        b \in {StepOne, StepTwo, Pipeline, Broken}}
    \cup {Entry("repo/plugins/slack/plugin.yaml", b) : b \in {StepTwo, StageOne}}
    \cup {Entry("repo/plugins/docker/logo.svg", Svg),
          Entry("plugins/docker/plugin.yaml", StepOne),
          Entry("plugins/broken/plugin.yaml", Broken),
          Entry("org/repo/plugins/docker/plugin.yaml", StepOne)}

SeqsUpTo(S, n) == UNION {[1..k -> S] : k \in 0..n}

\* An archive: entries of different names.
Archives ==
    {a \in SeqsUpTo(EntryPool, MaxEntries) :
        \A k, l \in 1..Len(a) : a[k].name = a[l].name => k = l}

\* The archives behind the remote link: those of fewer than MaxEntries entries.
Served == {a \in Archives : Len(a) < MaxEntries}

\* The archives whose manifests the pattern all selects.
SelectedArchives ==
    {a \in Archives :
        \A k \in 1..Len(a) :
            Match(PluginPattern, a[k].name) \/ a[k].name = "repo/plugins/docker/logo.svg"}

\* The catalogs a behaviour may start from.
InitCatalogs ==
    {{},
     {Plugin("docker", "step", "one", StepOne, "")},
     {Plugin("docker", "step", "one", StepOne, Svg),
      Plugin("legacy", "step", "old", Broken, "")}}

----------------------------------------------------------------------------
(* One Populate invocation *)

Call(op, arg, ok, entry) == [op |-> op, arg |-> arg, ok |-> ok, entry |-> entry]

\* The Create and Update calls among the store calls cs.
Writes(cs) == {k \in 1..Len(cs) : cs[k].op \in {"Create", "Update"}}

\* One call to the file system or the network: os.CreateTemp, http.Get,
\* os.Create, io.Copy, zip.OpenReader, os.Remove.
Op(op, arg, ok) == [op |-> op, arg |-> arg, ok |-> ok]

\* One line of the log: log.Warn()/log.Info() ... Str("name", name).Msg(msg)
Log(level, name, msg) == [level |-> level, name |-> name, msg |-> msg]

IdlePass ==
    [pc |-> "idle",         \* "idle", the call that comes next ("stat", "temp", "get",
                            \* "create", "copy", "open", "list"), "loop" (inside the
                            \* for loop) or "done" (returned)
     path |-> "",           \* the local variable path
     after |-> {},          \* the invocations that had returned when this one was called
     i |-> 0,               \* index of the entry the loop is at
     pluginMap |-> << >>,   \* UID -> row, from ListAll
     plugin |-> NoPlugin,   \* the plugin built by the last iteration, if it built one
     cnt |-> 0,
     err |-> "",            \* the returned error, "" for nil
     archive |-> << >>,     \* rc.File: the entries of the archive this pass opened
     ops |-> << >>,         \* the file system and network calls issued so far
     status |-> 0,          \* response.StatusCode of the fetch, 0 if none was answered
     bodyIsZip |-> FALSE,   \* response.Body is a zip archive
     fetched |-> << >>,     \* the entries io.Copy wrote to the temporary file
     calls |-> << >>,       \* the store calls issued so far
     log |-> << >>,         \* the lines logged so far
     tmpFile |-> FALSE,     \* the temporary file exists
     tmpHandle |-> FALSE,   \* f of os.CreateTemp is open
     zipOpen |-> FALSE,     \* zipFile is open
     streams |-> 0,         \* fc of file.Open not yet closed
     logos |-> 0]           \* lf of rc.Open not yet closed

\* Mutant of PluginMap: the loop that fills the map is missing.
PluginMapNone(rows) == << >>

\* pluginMap[p.UID] = p for every listed p.
PluginMap(rows) ==
    [u \in {q.UID : q \in rows} |-> CHOOSE q \in rows : q.UID = u]

Did(st, op, arg, ok) == [st EXCEPT !.ops = Append(st.ops, Op(op, arg, ok))]

\* Mutant of Removed: the deferred os.Remove is missing.
RemovedNever(st) == st

\* defer os.Remove(f.Name()), run when Populate returns after it made the
\* temporary file.
Removed(st) ==
    IF st.tmpFile
    THEN Did([st EXCEPT !.tmpFile = FALSE], "Remove", TempName, TRUE)
    ELSE st

\* defer fc.Close() of every entry opened and defer zipFile.Close(), run when
\* traverseAndUpsertPlugins and Populate return.  Neither f of os.CreateTemp
\* nor lf of rc.Open is closed anywhere.
Closed(st) == [st EXCEPT !.streams = 0, !.zipOpen = FALSE]

\* A return with an error.
Fail(st, msg) == [st EXCEPT !.pc = "done", !.err = msg]

\* Mutant of Download: the err tests of downloadZip are missing.
DownloadUnchecked(st, url, file, published, env) ==
    CASE st.pc = "get" ->
           [ok |-> TRUE,
            st |-> [Did(st, "Get", url, ~env.getErr) EXCEPT
                       !.pc = "create",
                       !.status = IF env.getErr THEN 0 ELSE env.status,
                       !.bodyIsZip = ~env.getErr /\ env.bodyIsZip]]
      [] st.pc = "create" ->
           [ok |-> TRUE,
            st |-> [Did(st, "Create", file, ~env.createErr) EXCEPT !.pc = "copy"]]
      [] st.pc = "copy" ->
           [ok |-> TRUE,
            st |-> [Did(st, "Copy", file, ~env.copyErr) EXCEPT
                       !.pc = "open",
                       !.fetched = IF st.bodyIsZip THEN published ELSE << >>]]

\* downloadZip(url, file), one call at a time: http.Get, os.Create, io.Copy.
\* published: the entries of the archive behind url.  response.StatusCode
\* is never looked at.
Download(st, url, file, published, env) ==
    CASE st.pc = "get" ->
           [ok |-> ~env.getErr,
            st |-> [Did(st, "Get", url, ~env.getErr) EXCEPT
                       !.pc = "create",
                       !.status = IF env.getErr THEN 0 ELSE env.status,
                       !.bodyIsZip = ~env.getErr /\ env.bodyIsZip]]
      [] st.pc = "create" ->
           [ok |-> ~env.createErr,
            st |-> [Did(st, "Create", file, ~env.createErr) EXCEPT !.pc = "copy"]]
      [] st.pc = "copy" ->
           [ok |-> ~env.copyErr,
            st |-> [Did(st, "Copy", file, ~env.copyErr) EXCEPT
                       !.pc = "open",
                       !.fetched = IF st.bodyIsZip /\ ~env.copyErr
                                   THEN published ELSE << >>]]

\* Populate is called: the path test.
Called(cfgPath, returned) ==
    LET called == [IdlePass EXCEPT !.after = returned, !.path = cfgPath]
    IN  IF cfgPath = ""
        THEN Fail(called, "plugins path not provided")
        ELSE [called EXCEPT !.pc = "stat"]

\* The next call of Populate before it calls traverseAndUpsertPlugins:
\* os.Stat, os.CreateTemp, a call of downloadZip, zip.OpenReader.
\* published: the entries of the zip behind the configured path; env: what
\* the file system and the network answer.
Prepare(st, published, env) ==
    CASE st.pc = "stat" ->
           [st EXCEPT !.pc = IF Stat(st.path) THEN "open" ELSE "temp"]
      [] st.pc = "temp" ->
           LET temp == [Did(st, "CreateTemp", TempName, ~env.tempErr) EXCEPT
                           !.tmpFile = ~env.tempErr, !.tmpHandle = ~env.tempErr]
           IN  IF env.tempErr
               THEN Fail(temp, "could not create temp file")
               ELSE [temp EXCEPT !.pc = "get"]
      [] st.pc \in {"get", "create", "copy"} ->
           LET dl == Download(st, st.path, TempName, published, env)
           IN  IF ~dl.ok
               THEN Fail(Removed(dl.st), "could not download remote zip")
               ELSE IF dl.st.pc = "open"
               THEN [dl.st EXCEPT !.path = TempName]
               ELSE dl.st
      [] st.pc = "open" ->
           LET remote == st.tmpFile
               isZip  == ~env.zipErr /\ (remote => st.bodyIsZip)
               opened == [Did(st, "OpenReader", st.path, isZip) EXCEPT
                             !.zipOpen = isZip]
           IN  IF ~isZip
               THEN Fail(Removed(opened), "could not open zip for reading")
               ELSE [opened EXCEPT !.pc = "list",
                                   !.archive = IF remote THEN st.fetched ELSE published]

\* traverseAndUpsertPlugins down to its loop: ListAll and the map.
List(st, rows, env) ==
    LET list   == StoreListAll(rows, env.listErr)
        listed == [st EXCEPT !.calls = <<Call("ListAll", NoPlugin, list.ok, 0)>>]
    IN  IF ~list.ok
        THEN Fail(Removed(Closed(listed)), "could not upsert plugins")
        ELSE [listed EXCEPT !.pc = "loop", !.i = 1,
                            !.pluginMap = PluginMap(list.rows)]

\* The answers the calls before the loop are run against: at most one call
\* fails.
BeginFaults == {"tempErr", "getErr", "createErr", "copyErr", "zipErr", "listErr"}

BeginEnv(fault, status, bodyIsZip) ==
    [tempErr |-> fault = "tempErr", getErr |-> fault = "getErr",
     createErr |-> fault = "createErr", copyErr |-> fault = "copyErr",
     zipErr |-> fault = "zipErr", listErr |-> fault = "listErr",
     status |-> status, bodyIsZip |-> bodyIsZip]

BeginEnvs ==
    {BeginEnv(f, 200, TRUE) : f \in BeginFaults \cup {"none"}}
    \cup {BeginEnv("none", 404, b) : b \in BOOLEAN}

\* The calls that can fail at pc.
StepFaults(pc) ==
    CASE pc = "temp"   -> {"tempErr"}
      [] pc = "get"    -> {"getErr", "status"}
      [] pc = "create" -> {"createErr"}
      [] pc = "copy"   -> {"copyErr"}
      [] pc = "open"   -> {"zipErr"}
      [] pc = "list"   -> {"listErr"}
      [] OTHER         -> {}

\* The calls that fail in env; an answer of another status than 200 is one.
Failing(env) ==
    {f \in DOMAIN env \ {"status", "bodyIsZip"} : env[f]}
    \cup (IF "status" \in DOMAIN env /\ env.status # 200 THEN {"status"} ELSE {})

\* filepath.Match("**/plugins/*/*.yaml", n) for the names of the pool.
Matched == [n \in {e.name : e \in EntryPool} |-> Match(PluginPattern, n)]

Selected(name) ==
    IF name \in DOMAIN Matched THEN Matched[name] ELSE Match(PluginPattern, name)

\* Mutant of Accepted: the default case of the type switch is missing.
AcceptedAny(config) == TRUE

\* The type switch on config.Spec.
Accepted(config) == config.Variant \in {"PluginStep", "PluginStage"}

\* Mutant of NewPlugin: UID is set from config.Type.
NewPluginTypeAsUID(config, raw) ==
    Plugin(config.Type, config.Type, config.Description, raw, "")

\* The plugin of lines 180-185, before the logo is read.
NewPlugin(config, raw) ==
    Plugin(config.Name, config.Type, config.Description, raw, "")

\* strings.ReplaceAll(name, `\`, `/`)
RECURSIVE Slashed(_)
Slashed(name) ==
    IF Len(name) = 0 THEN ""
    ELSE (IF Char(name, 1) = "\\" THEN "/" ELSE Char(name, 1))
            \o Slashed(SubSeq(name, 2, Len(name)))

\* strings.HasPrefix(s, prefix)
HasPrefix(s, prefix) ==
    Len(s) >= Len(prefix) /\ SubSeq(s, 1, Len(prefix)) = prefix

\* p without its leading "../"s.
RECURSIVE Below(_)
Below(p) == IF HasPrefix(p, "../") THEN Below(SubSeq(p, 4, Len(p))) ELSE p

\* strings.TrimPrefix(p, "/")
Unrooted(p) == IF HasPrefix(p, "/") THEN SubSeq(p, 2, Len(p)) ELSE p

\* archive/zip toValidName: the name under which the reader files an entry.
toValidName(name) == Below(Unrooted(Clean(Slashed(name))))

\* toValidName for the names of the pool.
ValidNames == [n \in {e.name : e \in EntryPool} |-> toValidName(n)]

ValidName(name) ==
    IF name \in DOMAIN ValidNames THEN ValidNames[name] ELSE toValidName(name)

\* filepath.Join(filepath.Dir(n), "logo.svg") for the names of the pool.
LogoFiles == [n \in {e.name : e \in EntryPool} |-> Join(Dir(n), "logo.svg")]

LogoFile(name) ==
    IF name \in DOMAIN LogoFiles THEN LogoFiles[name] ELSE Join(Dir(name), "logo.svg")

\* fs.ValidPath: "." or slash-separated elements none of which is "", "."
\* or "..".
ValidElements(es) == \A k \in 1..Len(es) : es[k] \notin {"", ".", ".."}

fsValidPath(name) == name = "." \/ ValidElements(Split(name))

\* fs.ValidPath for the logo names of the pool.
ValidPaths == [n \in {LogoFiles[m] : m \in DOMAIN LogoFiles} |-> fsValidPath(n)]

ValidPath(name) ==
    IF name \in DOMAIN ValidPaths THEN ValidPaths[name] ELSE fsValidPath(name)

\* What rc.Open returns: an error, an open directory or an open file.
NotOpened == [ok |-> FALSE, dir |-> FALSE, body |-> ""]
OpenedDir == [ok |-> TRUE, dir |-> TRUE, body |-> ""]
OpenedFile(body) == [ok |-> TRUE, dir |-> FALSE, body |-> body]

\* The entries of the archive the reader files under name.
FiledAt(archive, name) ==
    {k \in 1..Len(archive) : ValidName(archive[k].name) = name}

\* The entries of the archive the reader files below the directory name.
FiledBelow(archive, name) ==
    {k \in 1..Len(archive) : HasPrefix(ValidName(archive[k].name), name \o "/")}

\* The entry the reader has filed: a name that ends with a separator is a
\* directory, anything else is opened by File.Open (openErr: that fails, as
\* for a compression method without decompressor or a damaged header).
OpenEntry(entry, openErr) ==
    IF Char(entry.name, Len(entry.name)) = "/" THEN OpenedDir
    ELSE IF openErr THEN NotOpened
    ELSE OpenedFile(entry.body)

\* The least of the positions at.
First(at) == CHOOSE k \in at : \A l \in at : k <= l

\* at: the entries filed under name.  The first of a name wins, and every
\* directory above an entry exists.
OpenFiled(archive, name, openErr, at) ==
    IF at # {} THEN OpenEntry(archive[First(at)], openErr)
    ELSE IF FiledBelow(archive, name) # {} \/ name = "." THEN OpenedDir
    ELSE NotOpened

\* rc.Open(name).  The reader files every entry under its valid name and
\* opens the one filed under name; a directory opens, and reading it fails.
Open(archive, name, openErr) ==
    IF ~ValidPath(name) THEN NotOpened
    ELSE OpenFiled(archive, name, openErr, FiledAt(archive, name))

\* Mutant of WithLogo: the logo is never read.
WithLogoNever(plugin, lf, logoErr) == plugin

\* The plugin after the attempt to read its logo: lf is what rc.Open gave,
\* logoErr whether io.Copy of the opened logo failed.  A logo that did not
\* open leaves the plugin as it is.
WithLogo(plugin, lf, logoErr) ==
    IF lf.ok /\ ~lf.dir /\ ~logoErr THEN [plugin EXCEPT !.Logo = lf.body] ELSE plugin

\* Mutant of Decide: the Matches test is missing, a known plugin is always
\* updated.
DecideNoSkip(pluginMap, plugin) ==
    IF plugin.UID \in DOMAIN pluginMap THEN "update" ELSE "create"

\* Mutant of Decide: the second map test is missing, a changed plugin is
\* created.
DecideNoUpdate(pluginMap, plugin) ==
    IF plugin.UID \in DOMAIN pluginMap /\ Matches(pluginMap[plugin.UID], plugin)
    THEN "skip" ELSE "create"

\* Mutant of Decide: the test of line 212 is negated, a changed plugin is
\* created and an unknown one updated.
DecideSwapped(pluginMap, plugin) ==
    IF plugin.UID \in DOMAIN pluginMap
    THEN IF Matches(pluginMap[plugin.UID], plugin) THEN "skip" ELSE "create"
    ELSE "update"

\* What the loop body does with a plugin: "skip", "update" or "create".
Decide(pluginMap, plugin) ==
    IF plugin.UID \in DOMAIN pluginMap
    THEN IF Matches(pluginMap[plugin.UID], plugin) THEN "skip" ELSE "update"
    ELSE "create"

\* Mutant of Upsert: a full replace, the written plugin becomes the only row.
UpsertReplaceAll(what, rows, plugin, storeErr) ==
    IF storeErr THEN [ok |-> FALSE, rows |-> rows] ELSE [ok |-> TRUE, rows |-> {plugin}]

\* The store call of the loop body, for what = "update" or "create".
Upsert(what, rows, plugin, storeErr) ==
    IF what = "update"
    THEN StoreUpdate(rows, plugin, storeErr)
    ELSE StoreCreate(rows, plugin, storeErr)

\* Mutant of Count: cnt++ is missing.
CountNever(cnt, created) == cnt

\* Mutant of Count: the continue after a failed Create is missing.
CountAlways(cnt, created) == cnt + 1

\* cnt after a Create call.
Count(cnt, created) == IF created THEN cnt + 1 ELSE cnt

\* One iteration of the loop of traverseAndUpsertPlugins: the pass and the
\* store rows after it.  env: which of its reads and store calls fail; lf:
\* what rc.Open(logoFile) gives for the entry, looked at from line 190 on,
\* when the entry has been selected, read, parsed and accepted.
Reconcile(st, archive, rows, env, lf) ==
    LET file  == archive[st.i]
        warn(s, msg) == [s EXCEPT !.log = Append(s.log, Log("warn", file.name, msg))]
        info(s, msg) == [s EXCEPT !.log = Append(s.log, Log("info", file.name, msg))]
        next  == [st EXCEPT !.i = st.i + 1, !.plugin = NoPlugin]
        read  == [next EXCEPT !.streams = st.streams + 1]
        res   == ParseBytes(file.body)
        base  == NewPlugin(res.config, file.body)
        copyErr == lf.dir \/ env.logoErr
        plug  == WithLogo(base, lf, env.logoErr)
        seen  == IF lf.ok THEN [read EXCEPT !.logos = st.logos + 1] ELSE read
        built == [(IF lf.ok /\ copyErr THEN warn(seen, "could not copy logo file")
                   ELSE seen) EXCEPT !.plugin = plug]
        what  == Decide(st.pluginMap, plug)
        op    == IF what = "update" THEN "Update" ELSE "Create"
        r     == Upsert(what, rows, plug, env.storeErr)
        asked == [built EXCEPT !.calls = Append(st.calls, Call(op, plug, r.ok, st.i))]
    IN  IF ~Selected(file.name)
        THEN [pass |-> next, rows |-> rows]
        ELSE IF env.openErr
        THEN [pass |-> warn(next, "could not open file"), rows |-> rows]
        ELSE IF env.readErr
        THEN [pass |-> warn(read, "could not read file contents"), rows |-> rows]
        ELSE IF res.err
        THEN [pass |-> warn(read, "could not parse schema into valid config"),
              rows |-> rows]
        ELSE IF ~Accepted(res.config)
        THEN [pass |-> warn(read, "schema did not match a valid plugin schema"),
              rows |-> rows]
        ELSE IF what = "skip"
        THEN [pass |-> built, rows |-> rows]
        ELSE IF what = "update"
        THEN [pass |-> IF r.ok
                       THEN info(asked, "detected changes: updated existing plugin entry")
                       ELSE warn(asked, "could not update plugin"),
              rows |-> r.rows]
        ELSE [pass |-> [(IF r.ok THEN asked
                         ELSE warn(asked, "could not create plugin in DB"))
                           EXCEPT !.cnt = Count(st.cnt, r.ok)],
              rows |-> r.rows]

LoopBody(st, archive, rows, env) ==
    Reconcile(st, archive, rows, env,
              Open(archive, LogoFile(archive[st.i].name), env.logoOpenErr))

\* The answers one iteration is run against: the entry cannot be opened, or
\* cannot be read, or is read and then the opening of the logo, the read of
\* the logo and the store call each succeed or fail; a logo that does not
\* open is not read.
LoopEnvs ==
    {e \in [openErr : BOOLEAN, readErr : BOOLEAN, logoOpenErr : BOOLEAN,
            logoErr : BOOLEAN, storeErr : BOOLEAN] :
        /\ e.openErr => ~(e.readErr \/ e.logoOpenErr \/ e.logoErr \/ e.storeErr)
        /\ e.readErr => ~(e.logoOpenErr \/ e.logoErr \/ e.storeErr)
        /\ e.logoOpenErr => ~e.logoErr}

\* The loop has ended: traverseAndUpsertPlugins and Populate return nil and
\* their deferred calls run (fc.Close, zipFile.Close, os.Remove).
Return(st) ==
    Removed(Closed(
        [st EXCEPT !.pc = "done", !.err = "", !.plugin = NoPlugin,
                   !.log = Append(st.log, Log("info", "",
                              "added " \o ToString(st.cnt) \o " new entries to plugins"))]))

----------------------------------------------------------------------------
(* The lookup function of GetLookupFn *)

NoLookup ==
    [name |-> "", kind |-> "", typ |-> "", called |-> FALSE,
     err |-> "", config |-> NoConfig,
     finds |-> 0,           \* the number of Find calls issued
     found |-> FALSE]       \* Find returned a plugin

\* Mutant of LookupFn: the error of parse.ParseString is dropped.
LookupFnAnySpec(rows, name, kind, typ, version, storeErr) ==
    LET q    == [NoLookup EXCEPT !.name = name, !.kind = kind, !.typ = typ,
                                 !.called = TRUE]
        got  == StoreFind(rows, name, version, storeErr)
        res  == ParseString(got.row.Spec)
        asked == [q EXCEPT !.finds = 1, !.found = got.ok]
    IN  IF kind # "plugin" THEN [q EXCEPT !.err = "only plugin kind supported"]
        ELSE IF typ # "step" THEN [q EXCEPT !.err = "only step plugins supported"]
        ELSE IF ~got.ok THEN [asked EXCEPT !.err = "could not lookup plugin"]
        ELSE [asked EXCEPT !.config = res.config]

\* Mutant of LookupFn: the test of typ is missing.
LookupFnAnyType(rows, name, kind, typ, version, storeErr) ==
    LET q    == [NoLookup EXCEPT !.name = name, !.kind = kind, !.typ = typ,
                                 !.called = TRUE]
        got  == StoreFind(rows, name, version, storeErr)
        res  == ParseString(got.row.Spec)
        asked == [q EXCEPT !.finds = 1, !.found = got.ok]
    IN  IF kind # "plugin" THEN [q EXCEPT !.err = "only plugin kind supported"]
        ELSE IF ~got.ok THEN [asked EXCEPT !.err = "could not lookup plugin"]
        ELSE IF res.err
        THEN [asked EXCEPT !.err = "could not unmarshal plugin to v1yaml spec"]
        ELSE [asked EXCEPT !.config = res.config]

LookupFn(rows, name, kind, typ, version, storeErr) ==
    LET q    == [NoLookup EXCEPT !.name = name, !.kind = kind, !.typ = typ,
                                 !.called = TRUE]
        got  == StoreFind(rows, name, version, storeErr)
        res  == ParseString(got.row.Spec)
        asked == [q EXCEPT !.finds = 1, !.found = got.ok]
    IN  IF kind # "plugin" THEN [q EXCEPT !.err = "only plugin kind supported"]
        ELSE IF typ # "step" THEN [q EXCEPT !.err = "only step plugins supported"]
        ELSE IF ~got.ok THEN [asked EXCEPT !.err = "could not lookup plugin"]
        ELSE IF res.err
        THEN [asked EXCEPT !.err = "could not unmarshal plugin to v1yaml spec"]
        ELSE [asked EXCEPT !.config = res.config]

LookupNames == {"docker", "legacy"}
LookupKinds == {"plugin", "pipeline"}
LookupTypes == {"step", "stage"}

----------------------------------------------------------------------------
(* The state machine *)

Init ==
    /\ path \in {"", LocalZip, RemoteZip}
    /\ zip \in IF path = RemoteZip THEN Served ELSE Archives
    /\ catalog \in InitCatalogs
    /\ pass = [p \in Procs |-> IdlePass]
    /\ lookup = NoLookup
    /\ faults = 0
    /\ written = << >>

\* Populate is called for the p-th time.
PopulateBegin(p) ==
    /\ pass[p].pc = "idle"
    /\ \A q \in Procs : q < p => pass[q].pc # "idle"
    /\ pass' = [pass EXCEPT ![p] =
                   Called(path, {q \in Procs : pass[q].pc = "done"})]
    /\ UNCHANGED <<path, zip, catalog, lookup, faults, written>>

\* p makes its next call to the file system or the network.
PopulateStep(p) ==
    /\ pass[p].pc \in {"stat", "temp", "get", "create", "copy", "open"}
    /\ \E env \in BeginEnvs :
          /\ Failing(env) \subseteq StepFaults(pass[p].pc)
          /\ faults + Cardinality(Failing(env)) <= MaxFaults
          /\ faults' = faults + Cardinality(Failing(env))
          /\ pass' = [pass EXCEPT ![p] = Prepare(pass[p], zip, env)]
    /\ UNCHANGED <<path, zip, catalog, lookup, written>>

\* p calls ListAll.
TraverseBegin(p) ==
    /\ pass[p].pc = "list"
    /\ \E env \in BeginEnvs :
          /\ Failing(env) \subseteq StepFaults(pass[p].pc)
          /\ faults + Cardinality(Failing(env)) <= MaxFaults
          /\ faults' = faults + Cardinality(Failing(env))
          /\ pass' = [pass EXCEPT ![p] = List(pass[p], catalog, env)]
    /\ UNCHANGED <<path, zip, catalog, lookup, written>>

\* written after the pass by has issued the store calls cs in one step.
Issued(log, by, cs) ==
    IF Writes(cs) = {} THEN log
    ELSE LET c == cs[Len(cs)]
             u == c.arg.UID
         IN  [v \in DOMAIN log \cup {u} |->
                 IF v # u THEN log[v]
                 ELSE (IF u \in DOMAIN log THEN log[u] ELSE << >>)
                         \o <<[by |-> by, call |-> c]>>]

\* p's iteration against env leaves r.  A failure of env is one that a call
\* of the iteration meets: without it the iteration goes another way.
Iterate(p, env, r) ==
    /\ faults + Cardinality(Failing(env)) <= MaxFaults
    /\ \A f \in Failing(env) :
          LoopBody(pass[p], pass[p].archive, catalog,
                   [env EXCEPT ![f] = FALSE]).pass # r.pass
    /\ faults' = faults + Cardinality(Failing(env))
    /\ pass' = [pass EXCEPT ![p] = r.pass]
    /\ catalog' = r.rows
    /\ written' =
          Issued(written, p,
                 SubSeq(r.pass.calls, Len(pass[p].calls) + 1, Len(r.pass.calls)))

\* One iteration of p's loop.
ProcessEntry(p) ==
    /\ pass[p].pc = "loop"
    /\ pass[p].i <= Len(pass[p].archive)
    /\ \E env \in LoopEnvs :
          Iterate(p, env, LoopBody(pass[p], pass[p].archive, catalog, env))
    /\ UNCHANGED <<path, zip, lookup>>

PopulateReturn(p) ==
    /\ pass[p].pc = "loop"
    /\ pass[p].i > Len(pass[p].archive)
    /\ pass' = [pass EXCEPT ![p] = Return(pass[p])]
    /\ UNCHANGED <<path, zip, catalog, lookup, faults, written>>

Lookup ==
    /\ \E name \in LookupNames, kind \in LookupKinds, typ \in LookupTypes,
         storeErr \in BOOLEAN :
          lookup' = LookupFn(catalog, name, kind, typ, "", storeErr)
    /\ UNCHANGED <<path, zip, catalog, pass, faults, written>>

\* No invocation of Populate is under way.
Quiet == \A q \in Procs : pass[q].pc \in {"idle", "done"}

\* Populate called again and again, each call after the one before returned.
Next ==
    \/ \E p \in Procs : Quiet /\ PopulateBegin(p)
    \/ \E p \in Procs : PopulateStep(p)
    \/ \E p \in Procs : TraverseBegin(p)
    \/ \E p \in Procs : ProcessEntry(p)
    \/ \E p \in Procs : PopulateReturn(p)

Spec == Init /\ [][Next]_vars

\* Populate called while earlier calls are under way: the invocations
\* interleave at their calls to the file system, the network and the store.
OverlapNext ==
    \/ \E p \in Procs : PopulateBegin(p)
    \/ \E p \in Procs : PopulateStep(p)
    \/ \E p \in Procs : TraverseBegin(p)
    \/ \E p \in Procs : ProcessEntry(p)
    \/ \E p \in Procs : PopulateReturn(p)

\* The start of a behaviour in which no call fails for a reason outside the
\* program: a store call fails only by the store's contract.
OverlapInit ==
    /\ path \in {"", LocalZip, RemoteZip}
    /\ zip \in IF path = RemoteZip THEN Served ELSE SelectedArchives
    /\ catalog \in InitCatalogs
    /\ pass = [p \in Procs |-> IdlePass]
    /\ lookup = NoLookup
    /\ faults = MaxFaults
    /\ written = << >>

OverlapSpec == OverlapInit /\ [][OverlapNext]_vars

\* Overlapping invocations with outside failures.
OverlapFaultSpec == Init /\ [][OverlapNext]_vars

\* The archives that hold nothing but selected, valid manifests and their
\* logo, in any order: among them those in which two entries declare the same
\* identifier.
RaceArchives ==
    {b : b \in {a \in SelectedArchives :
        /\ a # << >>
        /\ \A k \in 1..Len(a) :
              \/ a[k].name = "repo/plugins/docker/logo.svg"
              \/ /\ ~ParseBytes(a[k].body).err
                 /\ Accepted(ParseBytes(a[k].body).config)}}

\* The invocations that race: the first two calls of Populate.
Racers == {1, 2}

RaceInit ==
    /\ path = LocalZip
    /\ zip \in RaceArchives
    /\ catalog \in InitCatalogs
    /\ pass = [p \in Procs |-> IdlePass]
    /\ lookup = NoLookup
    /\ faults = MaxFaults      \* no call fails for a reason outside the program
    /\ written = << >>

\* The file behind the path is replaced by another archive.  A pass that has
\* opened the file goes on reading the archive it opened, so a replacement
\* shows in the next zip.OpenReader alone: it is taken when an invocation is
\* about to open the file.
Republish ==
    /\ \E p \in Procs : pass[p].pc = "open"
    /\ zip' \in RaceArchives \ {zip}
    /\ UNCHANGED <<path, catalog, pass, lookup, faults, written>>

\* Overlapping invocations, with the archive replaced between calls.
RaceNext ==
    \/ \E p \in Racers : PopulateBegin(p)
    \/ \E p \in Racers : PopulateStep(p)
    \/ \E p \in Racers : TraverseBegin(p)
    \/ \E p \in Racers : ProcessEntry(p)
    \/ \E p \in Racers : PopulateReturn(p)
    \/ Republish

RaceSpec == RaceInit /\ [][RaceNext]_vars

\* The lookup function against any of the catalogs.
LookupSpec == Init /\ [][Lookup]_vars

----------------------------------------------------------------------------
(* Vocabulary of the properties *)

\* This step is an iteration of p's loop, on the entry zip[pass[p].i].
Iterates(p) ==
    /\ pass[p].pc = "loop"
    /\ pass[p].i <= Len(zip)
    /\ pass'[p] # pass[p]

\* This step is the return of p from its loop.
Returns(p) == pass[p].pc = "loop" /\ pass'[p].pc = "done"

\* The store calls p issues in this step.
NewCalls(p) ==
    SubSeq(pass'[p].calls, Len(pass[p].calls) + 1, Len(pass'[p].calls))

\* The lines p logs in this step.
NewLines(p) ==
    SubSeq(pass'[p].log, Len(pass[p].log) + 1, Len(pass'[p].log))

Warnings(ls) == {k \in 1..Len(ls) : ls[k].level = "warn"}

\* Content identity: type, description, raw specification text and logo.
SameContent(a, b) ==
    /\ a.Type = b.Type
    /\ a.Description = b.Description
    /\ a.Spec = b.Spec
    /\ a.Logo = b.Logo

\* The entry's bytes parse to a step plugin or a stage plugin.
ValidManifest(e) ==
    /\ ~ParseBytes(e.body).err
    /\ ParseBytes(e.body).config.Variant \in {"PluginStep", "PluginStage"}

\* p got as far as its loop: the archive was opened and ListAll succeeded.
Listed(p) ==
    /\ pass[p].calls # << >>
    /\ pass[p].calls[1].op = "ListAll"
    /\ pass[p].calls[1].ok

----------------------------------------------------------------------------
(* Properties *)

\* C1: when Populate is run twice in a row against the same archive with no
\* other writer in between, and neither run meets a failure, the second run
\* calls neither Create nor Update.
C1_SecondRunWritesNothing ==
    \A p, q \in Procs :
        ( /\ p \in pass[q].after
          /\ pass[q].pc = "done"
          /\ pass[p].err = "" /\ pass[q].err = ""
          /\ Warnings(pass[p].log) = {} /\ Warnings(pass[q].log) = {}
          /\ \A r \in Procs \ {p, q} : Writes(pass[r].calls) = {} )
        => Writes(pass[q].calls) = {}

\* C2: an iteration that builds a descriptor D whose identifier is in the
\* snapshot with the same type, description, specification text and logo
\* issues no store call and leaves the catalog as it is.
C2_UnchangedIsSkipped ==
    [][\A p \in Procs :
          LET D == pass'[p].plugin
              m == pass[p].pluginMap
          IN  ( /\ Iterates(p)
                /\ D # NoPlugin
                /\ D.UID \in DOMAIN m
                /\ SameContent(m[D.UID], D) )
              => /\ NewCalls(p) = << >>
                 /\ catalog' = catalog
                 /\ pass'[p].cnt = pass[p].cnt]_vars

\* C2 happens: a pass has just skipped an unchanged descriptor.
C2_Witness ==
    \E p \in Procs :
        /\ pass[p].pc = "loop"
        /\ pass[p].plugin # NoPlugin
        /\ pass[p].plugin.UID \in DOMAIN pass[p].pluginMap
        /\ SameContent(pass[p].pluginMap[pass[p].plugin.UID], pass[p].plugin)
        /\ Writes(pass[p].calls) = {}

\* C3 as stated: an iteration that builds a descriptor D whose identifier is
\* not in the snapshot calls Create exactly once for D and increments the
\* created counter by exactly 1.
C3_CreateAlwaysCounts ==
    [][\A p \in Procs :
          LET D == pass'[p].plugin
          IN  ( /\ Iterates(p)
                /\ D # NoPlugin
                /\ D.UID \notin DOMAIN pass[p].pluginMap )
              => /\ Len(NewCalls(p)) = 1
                 /\ NewCalls(p)[1].op = "Create"
                 /\ NewCalls(p)[1].arg = D
                 /\ pass'[p].cnt = pass[p].cnt + 1]_vars

\* C3 amended: such an iteration calls Create exactly once for D; the created
\* counter increments by exactly 1 if that Create succeeds and stays as it is
\* if the Create fails.
C3_CreateOnceCountsOnSuccess ==
    [][\A p \in Procs :
          LET D == pass'[p].plugin
          IN  ( /\ Iterates(p)
                /\ D # NoPlugin
                /\ D.UID \notin DOMAIN pass[p].pluginMap )
              => /\ Len(NewCalls(p)) = 1
                 /\ NewCalls(p)[1].op = "Create"
                 /\ NewCalls(p)[1].arg = D
                 /\ NewCalls(p)[1].ok => pass'[p].cnt = pass[p].cnt + 1
                 /\ ~NewCalls(p)[1].ok => pass'[p].cnt = pass[p].cnt]_vars

\* C3 happens: a pass has just created a descriptor that was not in its
\* snapshot and counted it.
C3_Witness ==
    \E p \in Procs :
        LET cs == pass[p].calls
        IN  /\ pass[p].pc = "loop"
            /\ pass[p].plugin # NoPlugin
            /\ pass[p].plugin.UID \notin DOMAIN pass[p].pluginMap
            /\ cs[Len(cs)].op = "Create"
            /\ cs[Len(cs)].ok
            /\ cs[Len(cs)].arg = pass[p].plugin
            /\ pass[p].cnt = 1

\* C4: an iteration that builds a descriptor D whose identifier is in the
\* snapshot with different content calls Update exactly once, with D, calls
\* Create not at all and leaves the created counter as it is.
C4_ChangedIsUpdated ==
    [][\A p \in Procs :
          LET D == pass'[p].plugin
              m == pass[p].pluginMap
          IN  ( /\ Iterates(p)
                /\ D # NoPlugin
                /\ D.UID \in DOMAIN m
                /\ ~SameContent(m[D.UID], D) )
              => /\ Len(NewCalls(p)) = 1
                 /\ NewCalls(p)[1].op = "Update"
                 /\ NewCalls(p)[1].arg = D
                 /\ pass'[p].cnt = pass[p].cnt]_vars

\* C4 happens: a pass has just updated a descriptor that differs from its
\* snapshot, and the catalog holds the new content.
C4_Witness ==
    \E p \in Procs :
        LET cs == pass[p].calls
            D  == pass[p].plugin
        IN  /\ pass[p].pc = "loop"
            /\ D # NoPlugin
            /\ D.UID \in DOMAIN pass[p].pluginMap
            /\ ~SameContent(pass[p].pluginMap[D.UID], D)
            /\ cs[Len(cs)].op = "Update"
            /\ cs[Len(cs)].ok
            /\ D \in catalog
            /\ pass[p].cnt = 0

\* C5: an iteration on a selected entry whose bytes do not parse, or parse to
\* another variant than step plugin and stage plugin, issues no store call
\* and moves the loop to the next entry; an iteration on a valid entry that
\* is opened and read builds its descriptor whatever came before it; and a
\* pass that leaves its loop has visited every entry and returns nil.
C5_BadManifestIsSkipped ==
    [][\A p \in Procs :
          LET e == zip[pass[p].i]
          IN  /\ (Iterates(p) /\ Selected(e.name) /\ ~ValidManifest(e))
                 => /\ NewCalls(p) = << >>
                    /\ catalog' = catalog
                    /\ pass'[p].cnt = pass[p].cnt
                    /\ pass'[p].pc = "loop"
                    /\ pass'[p].i = pass[p].i + 1
              /\ ( /\ Iterates(p) /\ Selected(e.name) /\ ValidManifest(e)
                   /\ \A k \in 1..Len(NewLines(p)) :
                         NewLines(p)[k].msg \notin
                            {"could not open file", "could not read file contents"} )
                 => /\ pass'[p].plugin.UID = ParseBytes(e.body).config.Name
                    /\ pass'[p].plugin.Spec = e.body
                    /\ pass'[p].i = pass[p].i + 1
              /\ Returns(p)
                 => /\ pass'[p].err = ""
                    /\ pass[p].i = Len(zip) + 1]_vars

\* C5 happens: a pass returned nil after it met a selected entry that is no
\* valid manifest and then wrote the valid entry that followed it.
C5_Witness ==
    \E p \in Procs :
        /\ pass[p].pc = "done"
        /\ pass[p].err = ""
        /\ Len(zip) = 2
        /\ Selected(zip[1].name) /\ ~ValidManifest(zip[1])
        /\ Selected(zip[2].name) /\ ValidManifest(zip[2])
        /\ \E k \in Writes(pass[p].calls) :
              pass[p].calls[k].entry = 2 /\ pass[p].calls[k].ok

\* C6: a lookup with kind other than "plugin" or type other than "step"
\* returns an error and no config, calls Find not at all and leaves the
\* catalog as it is.
C6_UnsupportedLookupFails ==
    [][(lookup' # lookup /\ (lookup'.kind # "plugin" \/ lookup'.typ # "step"))
       => /\ lookup'.err # ""
          /\ lookup'.config = NoConfig
          /\ lookup'.finds = 0
          /\ catalog' = catalog]_vars

\* C6 happens: a lookup of a stored plugin by kind "plugin" and type "stage"
\* was refused.
C6_Witness ==
    /\ lookup.called
    /\ lookup.kind = "plugin"
    /\ lookup.typ = "stage"
    /\ HasUID(catalog, lookup.name)
    /\ lookup.err = "only step plugins supported"

\* The path is <zero or more directories>/plugins/<name>/<file>.yaml.
AnyDepth(name) ==
    \/ Match("plugins/*/*.yaml", name)
    \/ \E k \in 1..Len(name) :
          /\ Char(name, k) = "/"
          /\ Match("plugins/*/*.yaml", SubSeq(name, k + 1, Len(name)))

\* p opens the entry in this step (or tries to and fails).
Opens(p) ==
    \/ pass'[p].streams = pass[p].streams + 1
    \/ /\ NewLines(p) # << >>
       /\ NewLines(p)[1].msg = "could not open file"

\* C7: an iteration opens its entry if and only if the entry's path is
\* <zero or more directories>/plugins/<name>/<file>.yaml.
C7_SelectedAtAnyDepth ==
    [][\A p \in Procs :
          Iterates(p) => (Opens(p) <=> AnyDepth(zip[pass[p].i].name))]_vars

\* C8: from an empty catalog, a pass over the archive of plugins/docker/plugin.yaml
\* (a valid step plugin "docker") and plugins/broken/plugin.yaml (invalid YAML)
\* that opens the archive, lists the catalog and reads its entries returns nil
\* with a created count of 1 and leaves exactly the entry "docker" in the catalog.
C8_DockerAndBroken ==
    \A p \in Procs :
        ( /\ zip = <<Entry("plugins/docker/plugin.yaml", StepOne),
                     Entry("plugins/broken/plugin.yaml", Broken)>>
          /\ pass[p].pc = "done"
          /\ Listed(p)
          /\ pass[p].pluginMap = << >>
          /\ \A q \in Procs \ {p} : pass[q].pc = "idle"
          /\ \A k \in Warnings(pass[p].log) :
                pass[p].log[k].name = "plugins/broken/plugin.yaml" )
        => /\ pass[p].err = ""
           /\ pass[p].cnt = 1
           /\ {r.UID : r \in catalog} = {"docker"}
           /\ Cardinality(catalog) = 1

\* The identifiers the archive's entries declare.
ArchiveUIDs == {ParseBytes(zip[k].body).config.Name : k \in 1..Len(zip)}

\* C9: no step removes an identifier from the catalog, and every row whose
\* identifier no entry of the archive declares stays exactly as it is.
C9_AdditiveOnly ==
    [][/\ {r.UID : r \in catalog} \subseteq {r.UID : r \in catalog'}
       /\ \A r \in catalog : r.UID \notin ArchiveUIDs => r \in catalog']_vars

\* C9 happens: a pass has written to a catalog that holds a row the archive
\* does not declare.
C9_Witness ==
    /\ \E r \in catalog : r.UID \notin ArchiveUIDs
    /\ \E p \in Procs : \E k \in Writes(pass[p].calls) : pass[p].calls[k].ok

\* C10: an iteration whose Create or Update fails leaves the catalog and the
\* created counter as they are and moves the loop to the next entry; and a
\* pass that leaves its loop has visited every entry and returns nil.
C10_FailedWriteIsSkipped ==
    [][\A p \in Procs :
          /\ ( /\ Iterates(p)
               /\ \E k \in Writes(NewCalls(p)) : ~NewCalls(p)[k].ok )
             => /\ catalog' = catalog
                /\ pass'[p].cnt = pass[p].cnt
                /\ pass'[p].pc = "loop"
                /\ pass'[p].i = pass[p].i + 1
                /\ pass'[p].err = ""
          /\ Returns(p)
             => /\ pass'[p].err = ""
                /\ pass[p].i = Len(zip) + 1]_vars

\* C10 happens: a pass returned nil after a Create failed on its first entry
\* and a write succeeded on its second.
C10_Witness ==
    \E p \in Procs :
        LET cs == pass[p].calls
        IN  /\ pass[p].pc = "done"
            /\ pass[p].err = ""
            /\ \E k, l \in Writes(cs) :
                  /\ cs[k].entry = 1 /\ cs[k].op = "Create" /\ ~cs[k].ok
                  /\ cs[l].entry = 2 /\ cs[l].ok

\* The file system and network calls among ops that failed.
Failed(ops) == {k \in 1..Len(ops) : ~ops[k].ok}

\* C11: a pass called with no path configured returns an error and has issued
\* no file system call, no network call and no store call; a pass in which
\* os.CreateTemp, the fetch (http.Get, os.Create, io.Copy), zip.OpenReader or
\* ListAll has failed has returned an error; and a pass that returned an error
\* has issued neither Create nor Update.
C11_FatalFailureWritesNothing ==
    \A p \in Procs :
        pass[p].pc # "idle" =>
            /\ path = ""
                 => /\ pass[p].pc = "done"
                    /\ pass[p].err # ""
                    /\ pass[p].ops = << >>
                    /\ pass[p].calls = << >>
            /\ ( \/ Failed(pass[p].ops) # {}
                 \/ (pass[p].calls # << >> /\ ~pass[p].calls[1].ok) )
                 => /\ pass[p].pc = "done"
                    /\ pass[p].err # ""
            /\ pass[p].err # "" => Writes(pass[p].calls) = {}

\* C11 happens: a pass over an archive that holds a selected, valid manifest
\* has returned an error because ListAll failed.
C11_Witness ==
    \E p \in Procs :
        /\ pass[p].pc = "done"
        /\ pass[p].err = "could not upsert plugins"
        /\ Failed(pass[p].ops) = {}
        /\ pass[p].calls = <<Call("ListAll", NoPlugin, FALSE, 0)>>
        /\ \E k \in 1..Len(zip) : Selected(zip[k].name) /\ ValidManifest(zip[k])

\* The calls of name op among ops.
Ops(ops, op) == {k \in 1..Len(ops) : ops[k].op = op}

\* C12: once a pass has returned, the temporary file it made does not exist:
\* every successful os.CreateTemp is followed by an os.Remove of that file,
\* whatever the pass returned; and when the configured path names a local
\* file, no pass makes a temporary file and no pass removes any file.
C12_TempFileIsRemoved ==
    \A p \in Procs :
        /\ pass[p].pc = "done"
             => /\ ~pass[p].tmpFile
                /\ \A k \in Ops(pass[p].ops, "CreateTemp") :
                      pass[p].ops[k].ok
                        => \E l \in Ops(pass[p].ops, "Remove") :
                              l > k /\ pass[p].ops[l].arg = pass[p].ops[k].arg
        /\ Stat(path)
             => /\ Ops(pass[p].ops, "CreateTemp") = {}
                /\ Ops(pass[p].ops, "Remove") = {}
                /\ ~pass[p].tmpFile

\* C12 happens: a pass that made a temporary file has returned the download
\* error and the file is gone.
C12_Witness ==
    \E p \in Procs :
        /\ pass[p].pc = "done"
        /\ pass[p].err = "could not download remote zip"
        /\ \E k \in Ops(pass[p].ops, "CreateTemp") : pass[p].ops[k].ok
        /\ pass[p].ops[Len(pass[p].ops)] = Op("Remove", TempName, TRUE)
        /\ ~pass[p].tmpFile

\* One iteration in which no read and no store call fails for an outside reason.
NoFault ==
    [openErr |-> FALSE, readErr |-> FALSE, logoOpenErr |-> FALSE,
     logoErr |-> FALSE, storeErr |-> FALSE]

\* The pass st run to its return with no other writer and no failure: the
\* pass and the store rows after it.
RECURSIVE Traverse(_, _, _)
Traverse(st, published, rows) ==
    IF st.pc \in {"idle", "done"} THEN [pass |-> st, rows |-> rows]
    ELSE IF st.pc = "list"
    THEN Traverse(List(st, rows, BeginEnv("none", 200, TRUE)), published, rows)
    ELSE IF st.pc # "loop"
    THEN Traverse(Prepare(st, published, BeginEnv("none", 200, TRUE)), published, rows)
    ELSE IF st.i > Len(st.archive) THEN [pass |-> Return(st), rows |-> rows]
    ELSE LET r == LoopBody(st, st.archive, rows, NoFault)
         IN  Traverse(r.pass, published, r.rows)

\* One whole call of Populate on a local archive against the store rows.
Populate(archive, rows) == Traverse(Called(LocalZip, {}), archive, rows)

\* The archives that hold the entries of a in any order.
Orders(a) ==
    {b \in [1..Len(a) -> {a[k] : k \in 1..Len(a)}] :
        \A k, l \in 1..Len(a) : b[k] = b[l] => k = l}

\* C13: when a pass has run alone and no call has failed for a reason outside
\* the program, the catalog and the created count it leaves are those a pass
\* from the same snapshot leaves for every other order of the archive's
\* entries.
C13_OrderIndependent ==
    \A p \in Procs :
        ( /\ pass[p].pc = "done"
          /\ pass[p].err = ""
          /\ faults = 0
          /\ \A q \in Procs \ {p} : pass[q].pc = "idle" )
        => LET before == {pass[p].pluginMap[u] : u \in DOMAIN pass[p].pluginMap}
           IN  \A b \in Orders(zip) :
                  /\ Populate(b, before).rows = catalog
                  /\ Populate(b, before).pass.cnt = pass[p].cnt

\* C14: a lookup with kind "plugin" and type "step" calls Find exactly once
\* and leaves the catalog as it is; if Find returns no plugin (none of that
\* name is stored, or the store fails), or the stored specification text does
\* not parse, it returns an error and no config; otherwise it returns no error
\* and the config parsed from the stored specification text.
C14_SupportedLookup ==
    [][(lookup' # lookup /\ lookup'.kind = "plugin" /\ lookup'.typ = "step")
       => /\ lookup'.finds = 1
          /\ catalog' = catalog
          /\ ~HasUID(catalog, lookup'.name) => ~lookup'.found
          /\ ~lookup'.found
               => lookup'.err # "" /\ lookup'.config = NoConfig
          /\ lookup'.found
               => \E row \in catalog :
                     /\ row.UID = lookup'.name
                     /\ IF ParseString(row.Spec).err
                        THEN lookup'.err # "" /\ lookup'.config = NoConfig
                        ELSE /\ lookup'.err = ""
                             /\ lookup'.config = ParseString(row.Spec).config]_vars

\* C14 happens: a lookup of the stored step plugin "docker" has returned its
\* config after one Find.
C14_Witness ==
    /\ lookup.called
    /\ lookup.kind = "plugin" /\ lookup.typ = "step"
    /\ lookup.name = "docker"
    /\ lookup.finds = 1
    /\ lookup.found
    /\ lookup.err = ""
    /\ lookup.config = ParseString(StepOne).config

\* C15: a pass whose fetch was answered with a status outside 200..299 opens
\* no archive and issues no store call, and once it has returned it has
\* returned the download error.
C15_BadStatusAborts ==
    \A p \in Procs :
        (pass[p].status # 0 /\ pass[p].status \notin 200..299)
        => /\ Ops(pass[p].ops, "OpenReader") = {}
           /\ pass[p].calls = << >>
           /\ pass[p].pc = "done" => pass[p].err = "could not download remote zip"

\* C16: once a pass has returned, nothing it opened is still open: not the
\* handle of the temporary file, not the archive, no entry stream and no logo
\* stream.
C16_EverythingReleased ==
    \A p \in Procs :
        pass[p].pc = "done"
        => /\ ~pass[p].tmpHandle
           /\ ~pass[p].zipOpen
           /\ pass[p].streams = 0
           /\ pass[p].logos = 0

\* The invocations p and q overlap: neither had returned when the other was
\* called.
Overlap(p, q) ==
    /\ p # q
    /\ pass[p].pc # "idle" /\ pass[q].pc # "idle"
    /\ p \notin pass[q].after
    /\ q \notin pass[p].after

\* The identifier the manifest of the row r declares: the name the lookup
\* function reads from r.Spec (the row's UID if the manifest does not parse).
Declared(r) ==
    IF ParseString(r.Spec).err THEN r.UID ELSE ParseString(r.Spec).config.Name

\* C17: from a catalog whose rows are each stored under the identifier their
\* manifest declares, the catalog holds at most one row per identifier, be
\* the identifier the UID the row is stored under or the name the row's
\* manifest declares: entries that declare the same identifier never leave
\* two rows.
C17_UniqueIdentifiers ==
    \A r, t \in catalog : (r.UID = t.UID \/ Declared(r) = Declared(t)) => r = t

\* C17 happens: two overlapping passes have each issued a Create for the same
\* identifier, one of the two succeeded, and the catalog holds one row of it.
C17_Witness ==
    \E p, q \in Procs :
        /\ Overlap(p, q)
        /\ \E k \in Writes(pass[p].calls), l \in Writes(pass[q].calls) :
              /\ pass[p].calls[k].op = "Create" /\ pass[p].calls[k].ok
              /\ pass[q].calls[l].op = "Create" /\ ~pass[q].calls[l].ok
              /\ pass[p].calls[k].arg.UID = pass[q].calls[l].arg.UID
              /\ Cardinality({r \in catalog : r.UID = pass[p].calls[k].arg.UID}) = 1

\* The entries of the archive named logo.svg in the directory of e.
LogosOf(e) == {k \in 1..Len(zip) : ValidName(zip[k].name) = LogoFile(e.name)}

\* p logs msg in this step.
Says(p, msg) == \E k \in 1..Len(NewLines(p)) : NewLines(p)[k].msg = msg

\* p opens a logo in this step.
OpensLogo(p) == pass'[p].logos = pass[p].logos + 1

\* C18: an iteration on a selected, valid manifest that is opened and read
\* builds its descriptor D and reconciles it whatever becomes of the logo: D's
\* logo is empty if the directory holds no logo.svg, if logo.svg does not
\* open or if reading it fails once it is opened, and the content of
\* logo.svg if it is opened and read; D is skipped if the snapshot holds
\* its identifier with the same content, logo included, and is otherwise the
\* argument of one Update (identifier in the snapshot) or one Create.
C18_LogoNeverBlocks ==
    [][\A p \in Procs :
          LET e == zip[pass[p].i]
              D == pass'[p].plugin
              m == pass[p].pluginMap
          IN  ( /\ Iterates(p) /\ Selected(e.name) /\ ValidManifest(e)
                /\ ~Says(p, "could not open file")
                /\ ~Says(p, "could not read file contents") )
              => /\ D # NoPlugin
                 /\ D.UID = ParseBytes(e.body).config.Name
                 /\ D.Spec = e.body
                 /\ LogosOf(e) = {} => ~OpensLogo(p)
                 /\ Says(p, "could not copy logo file") => OpensLogo(p)
                 /\ (~OpensLogo(p) \/ Says(p, "could not copy logo file"))
                      => D.Logo = ""
                 /\ (OpensLogo(p) /\ ~Says(p, "could not copy logo file"))
                      => \E k \in LogosOf(e) : D.Logo = zip[k].body
                 /\ IF D.UID \in DOMAIN m /\ SameContent(m[D.UID], D)
                    THEN NewCalls(p) = << >>
                    ELSE /\ Len(NewCalls(p)) = 1
                         /\ NewCalls(p)[1].arg = D
                         /\ NewCalls(p)[1].op =
                               IF D.UID \in DOMAIN m THEN "Update" ELSE "Create"]_vars

\* C18 happens: a pass has updated a plugin whose stored row differs from the
\* entry by the logo alone.
C18_Witness ==
    \E p \in Procs :
        LET D  == pass[p].plugin
            m  == pass[p].pluginMap
            cs == pass[p].calls
        IN  /\ pass[p].pc = "loop"
            /\ D # NoPlugin
            /\ D.Logo = Svg
            /\ D.UID \in DOMAIN m
            /\ m[D.UID].Logo = ""
            /\ m[D.UID].Spec = D.Spec
            /\ cs[Len(cs)].op = "Update"
            /\ cs[Len(cs)].ok
            /\ cs[Len(cs)].arg = D

\* The Create and Update calls of p for the identifier u.
WritesFor(p, u) == {k \in Writes(pass[p].calls) : pass[p].calls[k].arg.UID = u}

\* p and q have both written the identifier u, with different content, and
\* nobody else has.
Contend(p, q, u) ==
    /\ WritesFor(p, u) # {}
    /\ WritesFor(q, u) # {}
    /\ \A k \in WritesFor(p, u), l \in WritesFor(q, u) :
          ~SameContent(pass[p].calls[k].arg, pass[q].calls[l].arg)
    /\ \A r \in Procs \ {p, q} : WritesFor(r, u) = {}

\* The write issued last for the identifier u.
LastWrite(u) == written[u][Len(written[u])]

\* The places in the log of u of the calls of the store's operation op, and
\* of the calls the store accepted.
Places(u, op) == {k \in 1..Len(written[u]) : written[u][k].call.op = op}
Taken(u) == {k \in 1..Len(written[u]) : written[u][k].call.ok}

Least(S) == CHOOSE k \in S : \A l \in S : k <= l
Greatest(S) == CHOOSE k \in S : \A l \in S : l <= k

\* C19: when two overlapping passes that both wrote an identifier, with
\* different content, have both returned, the catalog holds the identifier
\* with the content of the write issued last for it.
C19_LastWriterWins ==
    \A p, q \in Procs :
        (Overlap(p, q) /\ pass[p].pc = "done" /\ pass[q].pc = "done")
        => \A u \in DOMAIN written :
              Contend(p, q, u)
              => \E r \in catalog : r = LastWrite(u).call.arg

\* C19 amended: when two overlapping passes that both wrote an identifier,
\* with different content, have both returned, and the store has failed by
\* its contract only, then, of the writes issued for the identifier, taken in
\* the order of issue: every write of a pass whose snapshot held the
\* identifier is an Update and is accepted; every write of a pass whose
\* snapshot did not hold it is a Create, the Create issued first is accepted
\* and every later Create fails; the catalog holds one row of the identifier,
\* with the content of the write accepted last, which is the Update issued
\* last if an Update was issued and the Create issued first if none was.
C19_LastAcceptedWriteWins ==
    \A p, q \in Procs :
        (Overlap(p, q) /\ pass[p].pc = "done" /\ pass[q].pc = "done")
        => \A u \in DOMAIN written :
              Contend(p, q, u)
              => LET W   == written[u]
                     ups == Places(u, "Update")
                     crs == Places(u, "Create")
                 IN  /\ \A k \in 1..Len(W) :
                           /\ W[k].by \in {p, q}
                           /\ W[k].call.op = "Update"
                                <=> u \in DOMAIN pass[W[k].by].pluginMap
                     /\ \A k \in ups : W[k].call.ok
                     /\ \A k \in crs : W[k].call.ok <=> k = Least(crs)
                     /\ Taken(u) # {}
                     /\ {r \in catalog : r.UID = u}
                           = {W[Greatest(Taken(u))].call.arg}
                     /\ ups # {} => W[Greatest(ups)].call.arg \in catalog
                     /\ ups = {} => W[Least(crs)].call.arg \in catalog

\* C19 happens: of two overlapping passes, q has created an identifier new to
\* its snapshot, p has then listed the store and updated the identifier, and
\* q has then called Create for a second entry that declares the identifier,
\* which failed; both have returned and the catalog holds the content of p's
\* Update, not of the write issued last.
C19_Witness ==
    \E p, q \in Procs :
        /\ Overlap(p, q)
        /\ pass[p].pc = "done" /\ pass[q].pc = "done"
        /\ "docker" \in DOMAIN written
        /\ Contend(p, q, "docker")
        /\ "docker" \in DOMAIN pass[p].pluginMap
        /\ "docker" \notin DOMAIN pass[q].pluginMap
        /\ LET W == written["docker"]
           IN  /\ Len(W) = 3
               /\ W[1].by = q /\ W[1].call.op = "Create" /\ W[1].call.ok
               /\ W[2].by = p /\ W[2].call.op = "Update" /\ W[2].call.ok
               /\ W[3].by = q /\ W[3].call.op = "Create" /\ ~W[3].call.ok
               /\ W[2].call.arg \in catalog

\* C20: a call of Populate issues ListAll at most once, as its first store
\* call, and the map it decides against holds exactly the rows the store held
\* then; the map stays as it is for the rest of the pass, whoever writes to
\* the store; every later store call of the pass is an Update for an
\* identifier in the map or a Create for an identifier absent from it (no
\* second ListAll, no Find), be the identifier in the store by now or not;
\* and the return issues no store call.
C20_DecidesAgainstSnapshot ==
    [][\A p \in Procs :
          LET m == pass[p].pluginMap
          IN  /\ pass[p].pc \notin {"list", "loop", "done"} => pass'[p].calls = << >>
              /\ pass[p].pc = "done" => pass'[p] = pass[p]
              /\ (pass[p].pc = "list" /\ pass'[p] # pass[p])
                   => /\ pass'[p].calls \in {<<Call("ListAll", NoPlugin, TRUE, 0)>>,
                                             <<Call("ListAll", NoPlugin, FALSE, 0)>>}
                      /\ pass'[p].pc = "loop" <=> pass'[p].calls[1].ok
                      /\ pass'[p].pc = "loop"
                           => /\ DOMAIN pass'[p].pluginMap = {r.UID : r \in catalog}
                              /\ \A u \in DOMAIN pass'[p].pluginMap :
                                    pass'[p].pluginMap[u] \in catalog
              /\ pass[p].pc = "loop"
                   => /\ pass'[p].pluginMap = m
                      /\ \A k \in 1..Len(NewCalls(p)) :
                            LET c == NewCalls(p)[k]
                            IN  /\ c.op \in {"Create", "Update"}
                                /\ c.op = "Update" <=> c.arg.UID \in DOMAIN m
                      /\ (Iterates(p) /\ pass'[p].plugin # NoPlugin
                            /\ pass'[p].plugin.UID \notin DOMAIN m)
                           => /\ Len(NewCalls(p)) = 1
                              /\ NewCalls(p)[1].op = "Create"
              /\ Returns(p) => NewCalls(p) = << >>]_vars

\* C20 happens: a pass has called Create for both of two entries that declare
\* the same identifier, new to its snapshot; the second call failed.
C20_Witness ==
    \E p \in Procs :
        LET cs == pass[p].calls
        IN  /\ pass[p].pc = "done"
            /\ Len(cs) = 3
            /\ cs[1].op = "ListAll"
            /\ cs[2].op = "Create" /\ cs[2].ok /\ cs[2].entry = 1
            /\ cs[3].op = "Create" /\ ~cs[3].ok /\ cs[3].entry = 2
            /\ cs[2].arg.UID = cs[3].arg.UID
            /\ cs[2].arg.UID \notin DOMAIN pass[p].pluginMap
            /\ cs[2].arg \in catalog

====
